---- MODULE Spec2Model ----
(***************************************************************************)
(* Conditional regression tree (Tree.hpp): growth, progress accounting,    *)
(* checkpointing, save/load and the evaluation descent.                    *)
(*                                                                         *)
(* One call of grow() is one step of the model: the recursion of grow is   *)
(* kept as an explicit stack of pending calls (node, samples), the left    *)
(* child's call above the right child's, so the steps happen in the        *)
(* depth-first order of the code.  The save() that follows the outermost   *)
(* grow() in the constructor and in update() belongs to the step that      *)
(* empties the stack.                                                      *)
(***************************************************************************)
EXTENDS Integers, Sequences, FiniteSets, TLC

\* ---------------------------------------------------------------- bounds
MaxDepth == 2
MaxBatch == 2
MaxTests == 1
MaxTicks == 2
MaxCandidates == 3
MaxScore == 1
MaxTurns == 3

\* ------------------------------------------------------ program constants
\* saveAuto: "Save every 10 minutes", if (time > 600)
SaveInterval == 600
\* boost::numeric::bounds<double>::lowest(), the sentinel of findOptimalSplit
InfoLowest == 0 - 1
\* powf returns float: IEEE-754 single precision, a significand of 24 bits
SignificandBits == 24

VARIABLES tree, stack, pc, now, disk, ev, savedTree

vars == <<tree, stack, pc, now, disk, ev, savedTree>>

\* ------------------------------------------------------------ value sets
Vals == {0, 1}
Samples == Vals
RECURSIVE SeqsUpTo(_, _)
SeqsUpTo(S, n) ==
  IF n = 0 THEN {<<>>}
  ELSE LET shorter == SeqsUpTo(S, n - 1)
       IN shorter \cup {Append(q, x) : q \in {r \in shorter : Len(r) = n - 1}, x \in S}
Batches == SeqsUpTo(Samples, MaxBatch)
\* clock readings: one exactly an interval after the start (not yet due) and
\* MaxTicks readings each just over an interval after the one before
Times == {SaveInterval} \cup {k * (SaveInterval + 1) : k \in 0..MaxTicks}
Later(t) == {u \in Times : u >= t}
Rngs == {1}
NoRng == 0
NoTicks == 0 - 1
Indeterminate == {0, 1}
SavePaths == {"tree_000.txt"}
LoadPaths == SavePaths \cup {"tree_001.txt"}
SaveOutcomes == {"ok", "noopen", "partial"}

\* ------------------------------------------------------------ ForestParam
Params ==
  [max_depth : 0..MaxDepth, min_patches : 1..MaxBatch, ntests : 0..MaxTests]

\* Scenario B of the specification: max_depth 2, min_patches 5, a batch of 8
\* that a threshold of 1 routes into 6 and 2
ScenarioB ==
  [samples |-> <<0, 0, 0, 0, 0, 0, 1, 1>>,
   param |-> [max_depth |-> 2, min_patches |-> 5, ntests |-> 1]]
TrainingInputs == [samples : Batches, param : Params] \cup {ScenarioB}

\* ------------------------------------------------------- Split descriptor
Scores == {0}
Split == [threshold : Vals, info : {InfoLowest} \cup Scores]
DefaultSplit == [threshold |-> 0, info |-> InfoLowest]
SplitLists(n) == {q \in SeqsUpTo(Split, n) : Len(q) = n}

\* ------------------------------------------------------------------ Node
NULL == 0
NewNode(depth) ==
  [depth |-> depth, state |-> "Unresolved", split |-> DefaultSplit,
   leaf |-> 0, left |-> NULL, right |-> NULL]
getDepth(n) == n.depth
isLeaf(n) == n.state = "Leaf"
hasSplit(n) == n.state = "Internal"
makeLeaf(samples) == Len(samples)
createLeaf(n, samples) == [n EXCEPT !.state = "Leaf", !.leaf = makeLeaf(samples)]
setSplit(n, s) == [n EXCEPT !.state = "Internal", !.split = s]
addLeftChild(n, l) == [n EXCEPT !.left = l]
addRightChild(n, r) == [n EXCEPT !.right = r]
LeftId(id) == 2 * id
RightId(id) == 2 * id + 1

\* ------------------------------------------------------------ arithmetic
RECURSIVE Pow2(_)
Pow2(n) == IF n <= 0 THEN 1 ELSE 2 * Pow2(n - 1)
\* the spacing of the floats around x >= 0
RECURSIVE Ulp(_)
Ulp(x) == IF x < Pow2(SignificandBits) THEN 1 ELSE 2 * Ulp(x \div 2)
\* the float nearest to the integer x >= 0, ties to the even significand: the
\* value of every float expression of the class, whose operands are integers
\* and powers of two
RoundFloat(x) ==
  LET u == Ulp(x)
      lo == (x \div u) * u
  IN IF 2 * (x - lo) < u THEN lo
     ELSE IF 2 * (x - lo) > u THEN lo + u
     ELSE IF (lo \div u) % 2 = 0 THEN lo ELSE lo + u
\* line 54: m_num_nodes = powf(2.0f, max_depth) - 1, a float assigned to an int
NumNodes(max_depth) == RoundFloat(Pow2(max_depth) - 1)
LeafUnitsNoMinusOne(max_depth, depth) == Pow2(max_depth - depth)
\* lines 114 and 163: powf(2.0f, max_depth-depth) - 1, a float
LeafUnits(max_depth, depth) == RoundFloat(Pow2(max_depth - depth) - 1)
\* lines 114 and 163: i_node += <float>, the int converted to float, the sum
\* rounded to float and converted back
addFloat(i_node, units) == RoundFloat(RoundFloat(i_node) + units)

\* ------------------------------------------------------------------ Tree
NoTree == [null |-> TRUE]
isFinishedNoZeroGuard(t) == t.i_node = t.m_num_nodes
isFinished(t) ==
  IF t.m_num_nodes = 0 THEN FALSE ELSE t.i_node = t.m_num_nodes

\* -------------------------------------------------------- split selection
RECURSIVE SelectFromLastWins(_, _, _)
SelectFromLastWins(splits, i, best) ==
  IF i > Len(splits) THEN best
  ELSE SelectFromLastWins(splits, i + 1,
                          IF splits[i].info >= best.info THEN splits[i] ELSE best)
\* lines 281-283: the loop over the generated candidates
RECURSIVE SelectFrom(_, _, _)
SelectFrom(splits, i, best) ==
  IF i > Len(splits) THEN best
  ELSE SelectFrom(splits, i + 1,
                  IF splits[i].info > best.info THEN splits[i] ELSE best)
\* lines 278-288: sentinel, selection, "found" when the sentinel was replaced
findOptimalSplit(splits) ==
  LET best == SelectFrom(splits, 1, DefaultSplit)
  IN [found |-> best.info # InfoLowest, best_split |-> best]

\* ---------------------------------------------------------------- routing
evalTest(sample, split) == sample
PairLess(p, q) == p[1] < q[1] \/ (p[1] = q[1] /\ p[2] < q[2])
RECURSIVE SortPairs(_)
SortPairs(ps) ==
  IF ps = {} THEN <<>>
  ELSE LET m == CHOOSE p \in ps : \A q \in ps \ {p} : PairLess(p, q)
       IN <<m>> \o SortPairs(ps \ {m})
RECURSIVE Pick(_, _, _, _, _)
Pick(samples, val_set, i, threshold, below) ==
  IF i > Len(val_set) THEN <<>>
  ELSE (IF (val_set[i][1] < threshold) = below
        THEN <<samples[val_set[i][2]]>> ELSE <<>>)
       \o Pick(samples, val_set, i + 1, threshold, below)
splitSamples(samples, val_set, threshold) ==
  <<Pick(samples, val_set, 1, threshold, TRUE),
    Pick(samples, val_set, 1, threshold, FALSE)>>
applyOptimalSplit(samples, best_split) ==
  LET val_set == SortPairs({<<evalTest(samples[i], best_split), i>> : i \in 1..Len(samples)})
  IN splitSamples(samples, val_set, best_split.threshold)

\* ------------------------------------------------------------ persistence
NoFile == [kind |-> "none"]
Corrupt == [kind |-> "corrupt"]
serialize(t) ==
  [kind |-> "snapshot", m_num_nodes |-> t.m_num_nodes, i_node |-> t.i_node,
   m_param |-> t.m_param, m_save_path |-> t.m_save_path,
   root |-> t.root, nodes |-> t.nodes]
save(t, d, outcome) ==
  IF outcome = "ok" THEN [d EXCEPT ![t.m_save_path] = serialize(t)]
  ELSE IF outcome = "partial" THEN [d EXCEPT ![t.m_save_path] = Corrupt]
  ELSE d
Remember(t, g, outcome) ==
  IF outcome = "ok" THEN [g EXCEPT ![t.m_save_path] = t] ELSE g

\* ---------------------------------------------------------------- events
\* ev: the last operation, what it did (kind), the outcome of the save() it
\* made, and origin: the call that started the tree's last growth
Event(op, kind, sv, origin) ==
  [op |-> op, kind |-> kind, save |-> sv, origin |-> origin,
   path |-> "", sample |-> 0, result |-> 0]

Init ==
  /\ tree = NoTree
  /\ stack = <<>>
  /\ pc = "start"
  /\ now = 0
  /\ disk = [p \in LoadPaths |-> NoFile]
  /\ ev = Event("init", "none", "none", "none")
  /\ savedTree = [p \in LoadPaths |-> NoTree]

\* Tree::Tree(samples, param, rng, save_path), up to the call of grow(root, samples)
ConstructWith(samples, param, rng, save_path) ==
  /\ pc = "start"
  /\ tree' = [m_rng |-> rng, m_save_path |-> save_path, m_param |-> param,
              m_num_nodes |-> NumNodes(param.max_depth),
              i_node |-> 0, i_leaf |-> 0, m_ticks |-> now,
              root |-> 1, nodes |-> (1 :> NewNode(0))]
  /\ stack' = <<[node |-> 1, samples |-> samples]>>
  /\ ev' = Event("construct", "start", "none", "construct")
  /\ pc' = "grow"
  /\ UNCHANGED <<now, disk, savedTree>>
Construct ==
  \E input \in TrainingInputs, rng \in Rngs, save_path \in SavePaths :
    ConstructWith(input.samples, input.param, rng, save_path)

\* ------------------------------------------------------------------ grow
Top == Head(stack)
TopNode == tree.nodes[Top.node]
forceLeafNoSizeTest(param, node, samples) ==
  getDepth(node) >= param.max_depth \/ isLeaf(node)
\* line 111: the test that forces a leaf
forceLeaf(param, node, samples) ==
  \/ Len(samples) < param.min_patches
  \/ getDepth(node) >= param.max_depth
  \/ isLeaf(node)
\* lines 113-115 and 162-164: createLeaf and the two counters
LeafMade(t, id, samples) ==
  [t EXCEPT !.nodes[id] = createLeaf(t.nodes[id], samples),
            !.i_node = addFloat(@, LeafUnits(t.m_param.max_depth, getDepth(t.nodes[id]))),
            !.i_leaf = @ + 1]
SplitMadeUncounted(t, id, best_split) ==
  LET depth == getDepth(t.nodes[id])
      withSplit == setSplit(t.nodes[id], best_split)
      parent == addRightChild(addLeftChild(withSplit, LeftId(id)), RightId(id))
  IN [t EXCEPT !.nodes = (LeftId(id) :> NewNode(depth + 1)) @@
                         (RightId(id) :> NewNode(depth + 1)) @@
                         [@ EXCEPT ![id] = parent]]
SplitMadeRightUnattached(t, id, best_split) ==
  LET depth == getDepth(t.nodes[id])
      withSplit == setSplit(t.nodes[id], best_split)
      parent == addLeftChild(withSplit, LeftId(id))
  IN [t EXCEPT !.nodes = (LeftId(id) :> NewNode(depth + 1)) @@
                         (RightId(id) :> NewNode(depth + 1)) @@
                         [@ EXCEPT ![id] = parent],
               !.i_node = @ + 1]
\* lines 142-149: setSplit, i_node++, the two children
SplitMade(t, id, best_split) ==
  LET depth == getDepth(t.nodes[id])
      withSplit == setSplit(t.nodes[id], best_split)
      parent == addRightChild(addLeftChild(withSplit, LeftId(id)), RightId(id))
  IN [t EXCEPT !.nodes = (LeftId(id) :> NewNode(depth + 1)) @@
                         (RightId(id) :> NewNode(depth + 1)) @@
                         [@ EXCEPT ![id] = parent],
               !.i_node = @ + 1]
SplitRevisitedUncounted(t) == t
\* lines 127: the stored split is counted again on the way down
SplitRevisited(t) == [t EXCEPT !.i_node = @ + 1]
\* lines 132-133 and 156-157: grow(left, sets[0]); grow(right, sets[1])
Recurse(st, l, r, sets) ==
  <<[node |-> l, samples |-> sets[1]], [node |-> r, samples |-> sets[2]]>> \o Tail(st)
saveAutoDueAtInterval(t, ticks) == ticks - t.m_ticks >= SaveInterval
\* saveAuto, line 318
saveAutoDue(t, ticks) == ticks - t.m_ticks > SaveInterval

ReturnAbortsOnFailure(t2, st2, kind) ==
  /\ stack' = st2
  /\ IF st2 = <<>>
     THEN \E o \in SaveOutcomes :
            /\ tree' = IF o = "ok" THEN t2 ELSE NoTree
            /\ pc' = IF o = "ok" THEN "idle" ELSE "stopped"
            /\ disk' = save(t2, disk, o)
            /\ savedTree' = Remember(t2, savedTree, o)
            /\ ev' = Event("grow", kind, o, ev.origin)
     ELSE /\ tree' = t2
          /\ pc' = "grow"
          /\ ev' = Event("grow", kind, "none", ev.origin)
          /\ UNCHANGED <<disk, savedTree>>

\* The outermost grow() has returned when the stack is empty: the save() of
\* the constructor (line 62) or of update (line 98) follows at once.
Return(t2, st2, kind) ==
  /\ tree' = t2
  /\ stack' = st2
  /\ IF st2 = <<>>
     THEN /\ pc' = "idle"
          /\ \E o \in SaveOutcomes :
               /\ disk' = save(t2, disk, o)
               /\ savedTree' = Remember(t2, savedTree, o)
               /\ ev' = Event("grow", kind, o, ev.origin)
     ELSE /\ pc' = "grow"
          /\ ev' = Event("grow", kind, "none", ev.origin)
          /\ UNCHANGED <<disk, savedTree>>

\* grow, lines 111-119
GrowLeaf ==
  /\ pc = "grow"
  /\ forceLeaf(tree.m_param, TopNode, Top.samples)
  /\ Return(LeafMade(tree, Top.node, Top.samples), Tail(stack), "leaf")
  /\ UNCHANGED now

\* grow, lines 122-134 ("only in reload mode")
GrowReload ==
  /\ pc = "grow"
  /\ ~forceLeaf(tree.m_param, TopNode, Top.samples)
  /\ hasSplit(TopNode)
  /\ LET sets == applyOptimalSplit(Top.samples, TopNode.split)
     IN Return(SplitRevisited(tree), Recurse(stack, TopNode.left, TopNode.right, sets), "reload")
  /\ UNCHANGED now

\* grow, lines 137-158: a split was found
\* splits: what sg.generate() produced; ticks: the clock read by saveAuto; o:
\* the outcome of the checkpoint write, if one is due
GrowSplitWith(splits, ticks, o) ==
  /\ pc = "grow"
  /\ ~forceLeaf(tree.m_param, TopNode, Top.samples)
  /\ ~hasSplit(TopNode)
  /\ LET r == findOptimalSplit(splits)
         sets == applyOptimalSplit(Top.samples, r.best_split)
         t2 == SplitMade(tree, Top.node, r.best_split)
         due == saveAutoDue(t2, ticks)
         t3 == IF due THEN [t2 EXCEPT !.m_ticks = ticks] ELSE t2
     IN /\ r.found
        /\ due \/ o = "ok"
        /\ now' = ticks
        /\ tree' = t3
        /\ stack' = Recurse(stack, LeftId(Top.node), RightId(Top.node), sets)
        /\ pc' = "grow"
        /\ disk' = IF due THEN save(t3, disk, o) ELSE disk
        /\ savedTree' = IF due THEN Remember(t3, savedTree, o) ELSE savedTree
        /\ ev' = Event("grow", "split", IF due THEN o ELSE "none", ev.origin)
GrowSplit ==
  /\ pc = "grow"
  /\ \E splits \in SplitLists(tree.m_param.ntests), ticks \in Later(now), o \in SaveOutcomes :
       GrowSplitWith(splits, ticks, o)

\* grow, lines 159-168: "No valid split found"
GrowNoSplitWith(splits) ==
  /\ pc = "grow"
  /\ ~forceLeaf(tree.m_param, TopNode, Top.samples)
  /\ ~hasSplit(TopNode)
  /\ ~findOptimalSplit(splits).found
  /\ Return(LeafMade(tree, Top.node, Top.samples), Tail(stack), "nosplit")
  /\ UNCHANGED now
GrowNoSplit ==
  /\ pc = "grow"
  /\ \E splits \in SplitLists(tree.m_param.ntests) : GrowNoSplitWith(splits)

\* ---------------------------------------------------------------- update
mustGrow(t) == ~isFinished(t)
\* update, lines 88-97, up to the call of grow(root, samples)
UpdateGrow ==
  /\ pc = "idle"
  /\ tree # NoTree
  /\ mustGrow(tree)
  /\ \E samples \in Batches, rng \in Rngs, ticks \in Later(now) :
       /\ tree' = [tree EXCEPT !.m_rng = rng, !.i_node = 0, !.i_leaf = 0,
                               !.m_ticks = ticks]
       /\ now' = ticks
       /\ stack' = <<[node |-> tree.root, samples |-> samples]>>
       /\ ev' = Event("update", "start", "none", "update")
  /\ pc' = "grow"
  /\ UNCHANGED <<disk, savedTree>>

updateFinishedResets(t, rng) == [t EXCEPT !.m_rng = rng, !.i_node = 0, !.i_leaf = 0]
\* lines 88-90 when isFinished(): only m_rng is assigned
updateFinished(t, rng) == [t EXCEPT !.m_rng = rng]
\* update on a finished tree, lines 88-90
UpdateFinished ==
  /\ pc = "idle"
  /\ tree # NoTree
  /\ ~mustGrow(tree)
  /\ \E rng \in Rngs :
       /\ tree' = updateFinished(tree, rng)
       /\ ev' = Event("update", "noop", "none", ev.origin)
  /\ UNCHANGED <<stack, pc, now, disk, savedTree>>

\* ------------------------------------------------------------------ load
\* Tree() initialises nothing and serialize reads neither m_rng, m_ticks nor
\* i_leaf, so the three are indeterminate in a loaded Tree.  m_rng and m_ticks
\* are assigned by update before anything reads them and are kept as the
\* marks NoRng and NoTicks; i_leaf is drawn from Indeterminate.
Loaded(snap, leaf) ==
  [m_rng |-> NoRng, m_save_path |-> snap.m_save_path, m_param |-> snap.m_param,
   m_num_nodes |-> snap.m_num_nodes, i_node |-> snap.i_node,
   i_leaf |-> leaf, m_ticks |-> NoTicks, root |-> snap.root, nodes |-> snap.nodes]
\* tree_aux when "ia >> *tree_aux" throws: a Tree() nothing was read into
DefaultTree == [null |-> FALSE]
loadOutcome(d, path) ==
  IF d[path].kind = "none" THEN "notfound"
  ELSE IF d[path].kind = "corrupt" THEN "exception"
  ELSE "ok"
loadAssignEarly(old, outcome, fresh) == IF outcome = "notfound" THEN old ELSE fresh
\* the caller's Tree* after load(&tree, path)
loadAssign(old, outcome, fresh) == IF outcome = "ok" THEN fresh ELSE old
Load ==
  /\ pc \in {"start", "idle", "stopped"}
  /\ \E path \in LoadPaths, leaf \in Indeterminate :
       LET outcome == loadOutcome(disk, path)
       IN /\ outcome = "ok" \/ leaf = 0
          /\ tree' = loadAssign(tree, outcome,
                                IF outcome = "ok" THEN Loaded(disk[path], leaf)
                                ELSE DefaultTree)
          /\ pc' = IF outcome = "ok" THEN "idle" ELSE pc
          /\ ev' = [Event("load", outcome, "none", IF outcome = "ok" THEN "load" ELSE ev.origin)
                   EXCEPT !.path = path]
  /\ UNCHANGED <<stack, now, disk, savedTree>>

\* -------------------------------------------------------------- evaluate
eval(node, sample) == evalTest(sample, node.split) < node.split.threshold
\* evaluateMT: the id of the leaf reached, NULL when the descent leaves the tree
RECURSIVE evaluateMT(_, _, _)
evaluateMT(sample, nodes, id) ==
  IF id = NULL \/ id \notin DOMAIN nodes THEN NULL
  ELSE IF isLeaf(nodes[id]) THEN id
  ELSE IF eval(nodes[id], sample) THEN evaluateMT(sample, nodes, nodes[id].left)
  ELSE evaluateMT(sample, nodes, nodes[id].right)
Evaluate ==
  /\ pc = "idle"
  /\ tree # NoTree
  /\ \E sample \in Samples :
       ev' = [Event("evaluate", "none", "none", ev.origin)
              EXCEPT !.sample = sample,
                     !.result = evaluateMT(sample, tree.nodes, tree.root)]
  /\ UNCHANGED <<tree, stack, pc, now, disk, savedTree>>

\* --------------------------------------------------------------- ~Tree
\* The Tree object goes away: deleted by its owner once grown, or lost with
\* the process when training is interrupted in the middle of grow, the case
\* the checkpoints of saveAuto exist for.  The file stays.
Destroy ==
  /\ pc \in {"grow", "idle"}
  /\ tree' = NoTree
  /\ stack' = <<>>
  /\ pc' = "stopped"
  /\ ev' = Event("destroy", pc, "none", "none")
  /\ UNCHANGED <<now, disk, savedTree>>

Next ==
  \/ Construct
  \/ GrowLeaf
  \/ GrowReload
  \/ GrowSplit
  \/ GrowNoSplit
  \/ UpdateGrow
  \/ UpdateFinished
  \/ Load
  \/ Evaluate
  \/ Destroy

Spec == Init /\ [][Next]_vars
\* ------------------------------------------------------------------ claims
HasTree == tree # NoTree
Root == tree.nodes[tree.root]
GrowStep == pc = "grow" /\ ev'.op = "grow"
LeafCreated == GrowStep /\ isLeaf(tree'.nodes[Top.node])
FreshSplit == GrowStep /\ TopNode.state = "Unresolved" /\ hasSplit(tree'.nodes[Top.node])

\* C1: the node budget of every tree is 2^max_depth - 1, isFinished() is
\* true exactly when the budget is not 0 and nodesConsumed equals it, and so
\* every finished tree has nodesConsumed = 2^max_depth - 1.
C1_FinishedConsumedBudget ==
  HasTree =>
    /\ tree.m_num_nodes = Pow2(tree.m_param.max_depth) - 1
    /\ isFinished(tree) <=> (tree.m_num_nodes # 0 /\ tree.i_node = tree.m_num_nodes)
    /\ isFinished(tree) => tree.i_node = Pow2(tree.m_param.max_depth) - 1
\* C2: a grow step that makes its node a Leaf at depth d adds exactly
\* 2^(max_depth-d) - 1 to nodesConsumed and 1 to leavesCreated, whatever
\* forced the leaf; a grow step that assigns a fresh Split adds exactly 1 to
\* nodesConsumed and nothing to leavesCreated.
C2_GrowIncrements ==
  [][ /\ LeafCreated =>
           /\ tree'.i_node = tree.i_node
                + Pow2(tree.m_param.max_depth - TopNode.depth) - 1
           /\ tree'.i_leaf = tree.i_leaf + 1
      /\ FreshSplit =>
           /\ tree'.i_node = tree.i_node + 1
           /\ tree'.i_leaf = tree.i_leaf ]_vars
\* C3: in every reachable state nodesConsumed <= nodeBudget, with equality if
\* and only if isFinished(), for every max_depth >= 0.
C3_Original ==
  HasTree =>
    /\ tree.i_node <= tree.m_num_nodes
    /\ (tree.i_node = tree.m_num_nodes) <=> isFinished(tree)

\* C4: no construct, grow, update or save step on a Tree makes nodesConsumed
\* smaller than it was (a load makes a new Tree and is left out).
C4_Original ==
  [][ (HasTree /\ ev'.op \in {"grow", "update", "evaluate"}) =>
        tree'.i_node >= tree.i_node ]_vars

\* C5: the Tree a successful load() returns equals the Tree whose save() wrote
\* the file: same nodes, same nodeBudget, nodesConsumed and leavesCreated,
\* same isFinished().
C5_RoundTrip ==
  (ev.op = "load" /\ ev.kind = "ok") =>
    LET was == savedTree[ev.path]
    IN /\ tree.nodes = was.nodes
       /\ tree.root = was.root
       /\ tree.m_num_nodes = was.m_num_nodes
       /\ tree.i_node = was.i_node
       /\ tree.i_leaf = was.i_leaf
       /\ isFinished(tree) = isFinished(was)

\* C6: evaluate on a finished tree ends at a Leaf, whatever the sample, after
\* a descent through Internal nodes that have both children.
RECURSIVE descentOK(_, _, _)
descentOK(sample, nodes, id) ==
  /\ id \in DOMAIN nodes
  /\ \/ isLeaf(nodes[id])
     \/ /\ hasSplit(nodes[id])
        /\ nodes[id].left # NULL
        /\ nodes[id].right # NULL
        /\ descentOK(sample, nodes,
                     IF eval(nodes[id], sample) THEN nodes[id].left ELSE nodes[id].right)
C6_EvaluateEndsAtLeaf ==
  (ev.op = "evaluate" /\ isFinished(tree)) =>
    /\ ev.result # NULL
    /\ isLeaf(tree.nodes[ev.result])
    /\ descentOK(ev.sample, tree.nodes, tree.root)
    /\ ev.result = evaluateMT(ev.sample, tree.nodes, tree.root)

\* C7: a grow step whose batch is smaller than min_patches makes its node a
\* Leaf and does nothing else at it: no split search, no new node, no
\* recursion, the stored Split and children untouched; at every depth, and
\* also when the node carries a Split.
C7_SmallBatchMakesLeaf ==
  [][ (GrowStep /\ Len(Top.samples) < tree.m_param.min_patches) =>
        /\ isLeaf(tree'.nodes[Top.node])
        /\ ev'.kind = "leaf"
        /\ DOMAIN tree'.nodes = DOMAIN tree.nodes
        /\ \A id \in DOMAIN tree.nodes \ {Top.node} : tree'.nodes[id] = tree.nodes[id]
        /\ tree'.nodes[Top.node] = createLeaf(TopNode, Top.samples)
        /\ stack' = Tail(stack) ]_vars
C7_Witness ==
  /\ HasTree
  /\ ev.op = "grow"
  /\ ev.kind = "leaf"
  /\ ev.origin = "update"
  /\ isLeaf(Root)
  /\ Root.left # NULL
  /\ Root.leaf < tree.m_param.min_patches

\* C8: update on a finished tree changes neither counter, nor the budget, nor
\* any node, calls no grow and writes no file.
C8_UpdateFinishedNoop ==
  [][ (pc = "idle" /\ HasTree /\ isFinished(tree) /\ ev'.op = "update") =>
        /\ tree'.i_node = tree.i_node
        /\ tree'.i_leaf = tree.i_leaf
        /\ tree'.m_num_nodes = tree.m_num_nodes
        /\ tree'.nodes = tree.nodes
        /\ tree'.root = tree.root
        /\ stack' = <<>>
        /\ pc' = "idle"
        /\ disk' = disk ]_vars
C8_Witness ==
  /\ HasTree
  /\ ev.op = "update"
  /\ ev.kind = "noop"
  /\ isFinished(tree)
  /\ tree.i_leaf > 0

\* C9: load of a path that cannot be opened, or whose content does not parse,
\* returns failure as a value and leaves the caller's Tree pointer as it was.
C9_LoadFailure ==
  [][ (ev'.op = "load" /\ disk[ev'.path].kind # "snapshot") =>
        /\ ev'.kind \in {"notfound", "exception"}
        /\ ev'.kind = "exception" <=> disk[ev'.path].kind = "corrupt"
        /\ tree' = tree
        /\ pc' = pc ]_vars
C9_Witness ==
  /\ ev.op = "load"
  /\ ev.kind = "exception"
  /\ disk[ev.path] = Corrupt
  /\ HasTree

\* C10: Scenario B. A construct with max_depth 2 and min_patches 5 whose root
\* batch of 8 is split into 6 and 2, the child with 6 finding a split, ends
\* with nodesConsumed = 3 = nodeBudget, isFinished() and leavesCreated = 3.
ScenarioBHappened ==
  /\ HasTree
  /\ pc = "idle"
  /\ ev.origin = "construct"
  /\ tree.m_param.max_depth = 2
  /\ tree.m_param.min_patches = 5
  /\ hasSplit(Root)
  /\ \E big \in {Root.left, Root.right}, small \in {Root.left, Root.right} :
       /\ big # small
       /\ isLeaf(tree.nodes[small])
       /\ tree.nodes[small].leaf = 2
       /\ hasSplit(tree.nodes[big])
       /\ isLeaf(tree.nodes[tree.nodes[big].left])
       /\ isLeaf(tree.nodes[tree.nodes[big].right])
       /\ tree.nodes[tree.nodes[big].left].leaf
            + tree.nodes[tree.nodes[big].right].leaf = 6
C10_ScenarioB ==
  ScenarioBHappened =>
    /\ tree.i_node = 3
    /\ tree.m_num_nodes = 3
    /\ isFinished(tree)
    /\ tree.i_leaf = 3
C10_Witness == ScenarioBHappened /\ ev.op = "grow"

Internals(t) == {id \in DOMAIN t.nodes : hasSplit(t.nodes[id])}
Leaves(t) == {id \in DOMAIN t.nodes : isLeaf(t.nodes[id])}
Unresolveds(t) == {id \in DOMAIN t.nodes : t.nodes[id].state = "Unresolved"}

\* C11: Scenario A. In a construct with max_depth 2 and min_patches 1 where no
\* node above depth 2 is made a Leaf (each finds a split on a non-empty batch),
\* nodesConsumed counts the splits assigned so far (1 after the root's, 3 after
\* both depth-1 splits), each depth-2 Leaf adds 0 to it and 1 to
\* leavesCreated, and construct ends with nodesConsumed = 3 = nodeBudget,
\* isFinished() and leavesCreated = 4.
ScenarioAHappening ==
  /\ HasTree
  /\ ev.origin = "construct"
  /\ tree.m_param.max_depth = 2
  /\ tree.m_param.min_patches = 1
  /\ \A id \in Leaves(tree) : getDepth(tree.nodes[id]) = 2
C11_ScenarioA ==
  ScenarioAHappening =>
    /\ tree.i_node = Cardinality(Internals(tree))
    /\ tree.i_leaf = Cardinality(Leaves(tree))
    /\ pc = "idle" =>
         /\ tree.i_node = 3
         /\ tree.m_num_nodes = 3
         /\ isFinished(tree)
         /\ tree.i_leaf = 4
C11_Witness ==
  /\ ScenarioAHappening
  /\ pc = "idle"
  /\ ev.op = "grow"
  /\ Cardinality(Internals(tree)) = 3
  /\ Cardinality(Leaves(tree)) = 4

ReloadStep ==
  /\ GrowStep
  /\ ~forceLeaf(tree.m_param, TopNode, Top.samples)
  /\ hasSplit(TopNode)
ReloadFrame ==
  /\ tree'.nodes = tree.nodes
  /\ tree'.i_leaf = tree.i_leaf
  /\ stack' = Recurse(stack, TopNode.left, TopNode.right,
                      applyOptimalSplit(Top.samples, TopNode.split))
  /\ disk' = disk

\* C12 as stated: a grow step at a node that already carries a Split (and is
\* not forced to a Leaf) routes the batch through the stored Split and goes
\* on with the two existing children; it leaves nodesConsumed as it was, makes
\* no node and keeps the stored Split.
C12_Original ==
  [][ ReloadStep => (ReloadFrame /\ tree'.i_node = tree.i_node) ]_vars
\* C12 amended: such a step routes the batch through the stored Split and goes
\* on with the two existing children, makes no node, keeps the stored Split,
\* leaves leavesCreated as it was and writes no file; it adds exactly 1 to
\* nodesConsumed, which update has set to 0 before the descent.
C12_ReloadCountsSplit ==
  [][ ReloadStep => (ReloadFrame /\ tree'.i_node = tree.i_node + 1) ]_vars
C12_Witness ==
  /\ HasTree
  /\ ev.op = "grow"
  /\ ev.kind = "reload"
  /\ ev.origin = "update"
  /\ hasSplit(Root)
  /\ tree.i_node = 1
  /\ Len(stack) = 2
  /\ stack[1].node = Root.left

\* ------------------------------------------------- split selection alone
\* findOptimalSplit on its own: the candidates that sg.generate() left in
\* splits are drawn at the start, one step runs the selection on them.
Candidates == [threshold : Vals, info : {InfoLowest} \cup (0..MaxScore)]
CandidateLists == SeqsUpTo(Candidates, MaxCandidates)
SelectionInit ==
  /\ tree = NoTree
  /\ stack = <<>>
  /\ pc = "start"
  /\ now = 0
  /\ disk = [p \in LoadPaths |-> NoFile]
  /\ savedTree = [p \in LoadPaths |-> NoTree]
  /\ \E splits \in CandidateLists :
       ev = [op |-> "generate", splits |-> splits,
             found |-> FALSE, best_split |-> DefaultSplit]
FindOptimalSplit ==
  /\ ev.op = "generate"
  /\ LET r == findOptimalSplit(ev.splits)
     IN ev' = [op |-> "findOptimalSplit", splits |-> ev.splits,
               found |-> r.found, best_split |-> r.best_split]
  /\ UNCHANGED <<tree, stack, pc, now, disk, savedTree>>
SplitSelection == SelectionInit /\ [][FindOptimalSplit]_vars

\* C13: when some candidate scores above the sentinel, the selection returns
\* a generated candidate whose info no other candidate exceeds, and of the
\* candidates with that info the one with the lowest index.
C13_FirstMaximal ==
  (ev.op = "findOptimalSplit" /\ \E k \in 1..Len(ev.splits) : ev.splits[k].info > InfoLowest) =>
    /\ ev.found
    /\ \E i \in 1..Len(ev.splits) :
         /\ ev.best_split = ev.splits[i]
         /\ \A j \in 1..Len(ev.splits) : ev.splits[j].info <= ev.splits[i].info
         /\ \A j \in 1..(i - 1) : ev.splits[j].info < ev.splits[i].info
C13_Witness ==
  /\ ev.op = "findOptimalSplit"
  /\ Len(ev.splits) = 3
  /\ ev.splits[1].info = 0
  /\ ev.splits[2].info = 1
  /\ ev.splits[3].info = 1
  /\ ev.splits[2].threshold # ev.splits[3].threshold
  /\ ev.best_split = ev.splits[2]

\* a grow step at a node that is neither forced to a Leaf nor carries a Split:
\* the step searches for a split
SearchStep ==
  /\ GrowStep
  /\ ~forceLeaf(tree.m_param, TopNode, Top.samples)
  /\ ~hasSplit(TopNode)

\* C14: a grow step that searches for a split and finds no candidate above the
\* sentinel (always so with ntests = 0) does what a forced leaf does: the node
\* becomes a Leaf with its Split and child links untouched, nodesConsumed
\* grows by 2^(max_depth-depth) - 1 and leavesCreated by 1, no node is made,
\* no checkpoint is taken, and the pending calls of grow go on.
C14_NoValidSplitIsLeaf ==
  [][ (SearchStep /\ (tree.m_param.ntests = 0 \/ ev'.kind = "nosplit")) =>
        /\ ev'.kind = "nosplit"
        /\ tree'.nodes = [tree.nodes EXCEPT ![Top.node] = createLeaf(TopNode, Top.samples)]
        /\ tree'.nodes[Top.node].split = TopNode.split
        /\ tree'.nodes[Top.node].left = NULL
        /\ tree'.nodes[Top.node].right = NULL
        /\ tree'.i_node = tree.i_node + Pow2(tree.m_param.max_depth - TopNode.depth) - 1
        /\ tree'.i_leaf = tree.i_leaf + 1
        /\ tree'.m_ticks = tree.m_ticks
        /\ now' = now
        /\ stack' = Tail(stack)
        /\ IF Tail(stack) = <<>>
           THEN pc' = "idle"
           ELSE pc' = "grow" /\ disk' = disk /\ ev'.save = "none" ]_vars
\* C15: the checkpoint policy runs at every fresh split assignment and at no
\* other step of grow.  At a fresh split it calls save() and sets
\* lastCheckpointTime to the time read if and only if that time is more than
\* the interval after lastCheckpointTime; otherwise it writes nothing and
\* leaves lastCheckpointTime as it was.  Every other grow step leaves
\* lastCheckpointTime as it was and writes only when it ends the growth.  So a
\* checkpoint is always more than one interval after the one before it.
C15_CheckpointPolicy ==
  [][ /\ FreshSplit =>
           IF now' - tree.m_ticks > SaveInterval
           THEN /\ tree'.m_ticks = now'
                /\ ev'.save \in SaveOutcomes
                /\ disk' = save(tree', disk, ev'.save)
           ELSE /\ tree'.m_ticks = tree.m_ticks
                /\ ev'.save = "none"
                /\ disk' = disk
      /\ (GrowStep /\ ~FreshSplit) =>
           /\ tree'.m_ticks = tree.m_ticks
           /\ now' = now
           /\ (disk' # disk \/ ev'.save # "none") => (stack' = <<>> /\ pc' = "idle") ]_vars
\* the second checkpoint of one growth: the file still holds the first one's
\* snapshot because the second one's write could not open it
C15_Witness ==
  /\ HasTree
  /\ pc = "grow"
  /\ ev.op = "grow"
  /\ ev.kind = "split"
  /\ ev.origin = "construct"
  /\ ev.save = "noopen"
  /\ tree.m_ticks = now
  /\ now = 2 * (SaveInterval + 1)
  /\ disk[tree.m_save_path].kind = "snapshot"
  /\ disk[tree.m_save_path].i_node = 1
  /\ tree.i_node = 2

\* every node of the node set ns that carries a Split has a left and a right
\* child in ns, two different nodes, each one level below it
TwoChildren(ns) ==
  \A id \in DOMAIN ns :
    hasSplit(ns[id]) =>
      /\ ns[id].left # NULL
      /\ ns[id].right # NULL
      /\ ns[id].left # ns[id].right
      /\ ns[id].left \in DOMAIN ns
      /\ ns[id].right \in DOMAIN ns
      /\ getDepth(ns[ns[id].left]) = getDepth(ns[id]) + 1
      /\ getDepth(ns[ns[id].right]) = getDepth(ns[id]) + 1
Snapshots == {p \in DOMAIN disk : disk[p].kind = "snapshot"}

\* C16: a grow step that assigns a fresh Split sets the Split, adds 1 to
\* nodesConsumed, makes and attaches two new children one level down, then
\* runs the checkpoint policy (a snapshot written by it already has the
\* Split, the count and both children, and the children are still
\* Unresolved), and only then goes on with the left child and after it the
\* right child.  So every node with a Split in every snapshot on file has
\* exactly two children, each at its depth + 1.
C16_SplitOrder ==
  /\ [](\A p \in Snapshots : TwoChildren(disk[p].nodes))
  /\ [][ FreshSplit =>
           LET n == tree'.nodes[Top.node]
           IN /\ tree'.i_node = tree.i_node + 1
              /\ {n.left, n.right} \cap DOMAIN tree.nodes = {}
              /\ TwoChildren(tree'.nodes)
              /\ tree'.nodes[n.left] = NewNode(TopNode.depth + 1)
              /\ tree'.nodes[n.right] = NewNode(TopNode.depth + 1)
              /\ ev'.save = "ok" => disk'[tree.m_save_path] = serialize(tree')
              /\ Len(stack') = Len(stack) + 1
              /\ stack'[1].node = n.left
              /\ stack'[2].node = n.right
              /\ <<stack'[1].samples, stack'[2].samples>>
                   = applyOptimalSplit(Top.samples, n.split) ]_vars
C16_Witness ==
  /\ HasTree
  /\ ev.op = "grow"
  /\ ev.kind = "split"
  /\ ev.save = "ok"
  /\ disk[tree.m_save_path] = serialize(tree)
  /\ hasSplit(Root)
  /\ hasSplit(tree.nodes[Root.right])
  /\ Cardinality(Unresolveds(tree)) = 2
  /\ stack[1].node = tree.nodes[Root.right].left
  /\ stack[2].node = tree.nodes[Root.right].right

\* a grow step in which save() was called: by the checkpoint policy after a
\* fresh split, or by construct / update when the outermost grow returned
SaveStep == GrowStep /\ ev'.save \in SaveOutcomes

\* C17: save() changes nothing in the Tree in memory and never stops the
\* caller.  After a step that called save(), whatever the outcome of the
\* write, the Tree is what the statements of grow before the save made it
\* (nodes, nodesConsumed, leavesCreated, nodeBudget and savePath included);
\* after a checkpoint the pending calls of grow go on, after the final save
\* construct / update returns.  Only the file depends on the outcome.
C17_SaveLeavesTree ==
  [][ SaveStep =>
        /\ tree' = IF ev'.kind = "split"
                   THEN [SplitMade(tree, Top.node, tree'.nodes[Top.node].split)
                           EXCEPT !.m_ticks = now']
                   ELSE LeafMade(tree, Top.node, Top.samples)
        /\ tree'.m_num_nodes = tree.m_num_nodes
        /\ tree'.m_save_path = tree.m_save_path
        /\ IF ev'.kind = "split"
           THEN pc' = "grow" /\ Len(stack') = Len(stack) + 1
           ELSE pc' = "idle" /\ stack' = <<>>
        /\ disk' = save(tree', disk, ev'.save) ]_vars
\* a construct whose checkpoint and final save both failed to open the file
C17_Witness ==
  /\ HasTree
  /\ pc = "idle"
  /\ ev.op = "grow"
  /\ ev.origin = "construct"
  /\ ev.save = "noopen"
  /\ tree.m_ticks > 0
  /\ disk[tree.m_save_path] = NoFile
  /\ isFinished(tree)
  /\ tree.i_leaf >= 2

\* C18: a Tree with max_depth = 0 has nodeBudget 0 and is never finished.
\* Its nodesConsumed stays 0, the grow step at its root makes the root a Leaf,
\* adds 0 to nodesConsumed and ends the growth with a save; isFinished() is
\* false after construct and after every update, so every update on it
\* starts grow at the root again.
C18_DepthZeroNeverFinished ==
  /\ []((HasTree /\ tree.m_param.max_depth = 0) =>
          /\ tree.m_num_nodes = 0
          /\ tree.i_node = 0
          /\ ~isFinished(tree)
          /\ pc = "idle" => isLeaf(Root))
  /\ [][ (HasTree /\ tree.m_param.max_depth = 0) =>
           /\ GrowStep =>
                /\ Top.node = tree.root
                /\ isLeaf(tree'.nodes[tree.root])
                /\ tree'.i_node = tree.i_node
                /\ tree'.i_leaf = tree.i_leaf + 1
                /\ pc' = "idle"
                /\ ev'.save \in SaveOutcomes
                /\ disk' = save(tree', disk, ev'.save)
           /\ (pc = "idle" /\ ev'.op = "update") =>
                /\ pc' = "grow"
                /\ Len(stack') = 1
                /\ stack'[1].node = tree.root
                /\ tree'.i_leaf = 0 ]_vars
C18_Witness ==
  /\ HasTree
  /\ tree.m_param.max_depth = 0
  /\ pc = "idle"
  /\ ev.op = "grow"
  /\ ev.origin = "update"
  /\ ev.save = "ok"
  /\ isLeaf(Root)
  /\ tree.i_leaf = 1
  /\ disk[tree.m_save_path] = serialize(tree)

\* C19: in every snapshot on file whose nodesConsumed equals its nodeBudget
\* no node is Unresolved.
C19_SnapshotConsistent ==
  \A p \in Snapshots :
    disk[p].i_node = disk[p].m_num_nodes =>
      \A id \in DOMAIN disk[p].nodes : disk[p].nodes[id].state # "Unresolved"

\* C20: for max_depth >= 1 one call grows the tree to the end.  When
\* construct has returned, and when an update that found the tree unfinished
\* has returned, nodesConsumed = nodeBudget and isFinished().  leavesCreated
\* is 0 when the call starts and grows by 1 in exactly the grow steps that
\* make a Leaf, so at the return it is the number of Leaf creations of the
\* call (after construct: the number of Leaf nodes).  The recursion is
\* bounded: no pending call is deeper than max_depth.
C20_GrowthCompletes ==
  /\ []((HasTree /\ tree.m_param.max_depth >= 1) =>
          /\ (pc = "idle" /\ ev.origin \in {"construct", "update"}) =>
               /\ tree.i_node = tree.m_num_nodes
               /\ isFinished(tree)
               /\ tree.i_leaf >= 1
          /\ (pc = "idle" /\ ev.origin = "construct") =>
               tree.i_leaf = Cardinality(Leaves(tree))
          /\ pc = "grow" =>
               /\ stack # <<>>
               /\ Len(stack) <= tree.m_param.max_depth + 1
               /\ \A k \in 1..Len(stack) :
                    getDepth(tree.nodes[stack[k].node]) <= tree.m_param.max_depth)
  /\ [][ /\ (ev'.op \in {"construct", "update"} /\ pc' = "grow") => tree'.i_leaf = 0
         /\ GrowStep =>
              tree'.i_leaf = tree.i_leaf
                + (IF isLeaf(tree'.nodes[Top.node]) THEN 1 ELSE 0) ]_vars
\* --------------------------------------------------- growth of a deep tree
\* construct with the smallest max_depth whose node budget no float holds,
\* on a batch of one sample that scores 0: a candidate with threshold 0 routes
\* it to the right child, one with threshold 1 to the left child, and the
\* child left without a sample is forced to a Leaf.  The tree is one path.
\* Below depth MaxTurns only threshold 0 is generated; the clock stands still,
\* so no checkpoint is due.
DeepDepth == SignificandBits + 1
DeepParam == [max_depth |-> DeepDepth, min_patches |-> 1, ntests |-> 1]
DeepConstruct ==
  \E rng \in Rngs, save_path \in SavePaths :
    ConstructWith(<<0>>, DeepParam, rng, save_path)
DeepSplit ==
  /\ pc = "grow"
  /\ \E threshold \in (IF getDepth(TopNode) < MaxTurns THEN Vals ELSE {0}) :
       GrowSplitWith(<<[threshold |-> threshold, info |-> 0]>>, now, "ok")
DeepNoSplit == GrowNoSplitWith(<<DefaultSplit>>)
DeepNext ==
  \/ DeepConstruct
  \/ GrowLeaf
  \/ DeepSplit
  \/ DeepNoSplit
DeepGrowth == Init /\ [][DeepNext]_vars
====
